---- MODULE Spec2Model ----
(***************************************************************************)
(* Model of the "details" HTTP service (details-instrumented.go).          *)
(*                                                                         *)
(* Strings the program takes apart (URL paths, published dates) are        *)
(* sequences of one-character strings; strings it only copies or compares  *)
(* are TLA+ strings.  An http.Header is a function from header names to    *)
(* sequences of values.  A JSON object is a function from its keys.        *)
(***************************************************************************)
EXTENDS Integers, Sequences, FiniteSets, TLC

\* ------------------------------------------------------------------ bounds
NumRequests == 2      \* requests the server handles concurrently
MaxTail == 3          \* characters after "/details/" in the rich path set
MaxValues == 2        \* values per header name in the rich header set
MaxClock == 7         \* cap on the seconds counted for one outbound call

Requests == 1..NumRequests

\* ------------------------------------------------------- program constants
\* http.Client{Timeout: 5 * time.Second}
ClientTimeout == 5

\* var incomingHeaders = []string{...}
incomingHeaders ==
    << "x-request-id", "x-ot-span-context",
       "x-datadog-trace-id", "x-datadog-parent-id", "x-datadog-sampling-priority",
       "traceparent", "tracestate", "x-cloud-trace-context", "grpc-trace-bin",
       "x-b3-traceid", "x-b3-spanid", "x-b3-parentspanid", "x-b3-sampled", "x-b3-flags",
       "end-user", "user-agent" >>

\* ---------------------------------------------------------------- strings
DigitChars == << "0", "1", "2", "3", "4", "5", "6", "7", "8", "9" >>

IsDigit(c) == \E i \in 1..10 : DigitChars[i] = c

DigitVal(c) == (CHOOSE i \in 1..10 : DigitChars[i] = c) - 1

\* strings.Split(s, sep) for a one-character separator
RECURSIVE Split(_, _)
Split(s, sep) ==
    IF \E i \in 1..Len(s) : s[i] = sep
    THEN LET i == CHOOSE k \in 1..Len(s) :
                      s[k] = sep /\ \A j \in 1..(k - 1) : s[j] # sep
         IN  << SubSeq(s, 1, i - 1) >> \o Split(SubSeq(s, i + 1, Len(s)), sep)
    ELSE << s >>

\* the loop of strconv.Atoi's fast path: n = n*10 + int(ch - '0')
RECURSIVE AtoiDigits(_, _)
AtoiDigits(s, n) ==
    IF s = << >> THEN [val |-> n, err |-> FALSE]
    ELSE IF ~IsDigit(Head(s)) THEN [val |-> 0, err |-> TRUE]
    ELSE AtoiDigits(Tail(s), n * 10 + DigitVal(Head(s)))

\* a lenient parse that stops at the first non-digit (Ruby's String#to_i)
RECURSIVE LeadingDigits(_, _)
LeadingDigits(s, n) ==
    IF s = << >> \/ ~IsDigit(Head(s)) THEN n
    ELSE LeadingDigits(Tail(s), n * 10 + DigitVal(Head(s)))

AtoiLenient(s) == [val |-> LeadingDigits(s, 0), err |-> FALSE]

\* strconv.Atoi(s) for len(s) < 19 (64-bit int): an optional sign and at
\* least one digit, nothing else; the value is 0 when err is set.
Atoi(s) ==
    IF Len(s) = 0 THEN [val |-> 0, err |-> TRUE]
    ELSE LET signed == Head(s) \in {"-", "+"}
             body == IF signed THEN Tail(s) ELSE s
             r == AtoiDigits(body, 0)
         IN  IF Len(body) < 1 THEN [val |-> 0, err |-> TRUE]
             ELSE IF r.err THEN r
             ELSE IF Head(s) = "-" THEN [val |-> 0 - r.val, err |-> FALSE]
             ELSE r

\* ---------------------------------------------------------------- headers
EmptyHeader == << >>

\* textproto.CanonicalMIMEHeaderKey on the names of incomingHeaders: the
\* first letter and every letter after a hyphen upper case, the rest lower.
CanonicalMIMEHeaderKey(s) ==
    CASE s = "x-request-id" -> "X-Request-Id"
      [] s = "x-ot-span-context" -> "X-Ot-Span-Context"
      [] s = "x-datadog-trace-id" -> "X-Datadog-Trace-Id"
      [] s = "x-datadog-parent-id" -> "X-Datadog-Parent-Id"
      [] s = "x-datadog-sampling-priority" -> "X-Datadog-Sampling-Priority"
      [] s = "traceparent" -> "Traceparent"
      [] s = "tracestate" -> "Tracestate"
      [] s = "x-cloud-trace-context" -> "X-Cloud-Trace-Context"
      [] s = "grpc-trace-bin" -> "Grpc-Trace-Bin"
      [] s = "x-b3-traceid" -> "X-B3-Traceid"
      [] s = "x-b3-spanid" -> "X-B3-Spanid"
      [] s = "x-b3-parentspanid" -> "X-B3-Parentspanid"
      [] s = "x-b3-sampled" -> "X-B3-Sampled"
      [] s = "x-b3-flags" -> "X-B3-Flags"
      [] s = "end-user" -> "End-User"
      [] s = "user-agent" -> "User-Agent"

\* http.Header.Values(key): the values stored under the canonical key
Values(h, key) ==
    IF CanonicalMIMEHeaderKey(key) \in DOMAIN h
    THEN h[CanonicalMIMEHeaderKey(key)]
    ELSE << >>

\* header[item] = values
SetHeader(h, item, values) ==
    [n \in (DOMAIN h) \cup {item} |-> IF n = item THEN values ELSE h[n]]

\* the loop of getForwardHeaders over incomingHeaders[i..]
RECURSIVE ForwardFrom(_, _, _)
ForwardFrom(i, reqHeader, header) ==
    IF i > Len(incomingHeaders) THEN header
    ELSE LET item == incomingHeaders[i]
             values == Values(reqHeader, item)
         IN  ForwardFrom(i + 1, reqHeader,
                         IF Len(values) > 0 THEN SetHeader(header, item, values)
                                            ELSE header)

\* a forwarder that keeps only the first value of each header (Get for Values)
RECURSIVE ForwardFirstFrom(_, _, _)
ForwardFirstFrom(i, reqHeader, header) ==
    IF i > Len(incomingHeaders) THEN header
    ELSE LET item == incomingHeaders[i]
             values == Values(reqHeader, item)
         IN  ForwardFirstFrom(i + 1, reqHeader,
                         IF Len(values) > 0 THEN SetHeader(header, item, << values[1] >>)
                                            ELSE header)

getForwardHeadersFirstOnly(reqHeader) == ForwardFirstFrom(1, reqHeader, EmptyHeader)

getForwardHeaders(reqHeader) == ForwardFrom(1, reqHeader, EmptyHeader)

\* ---------------------------------------------------------------- Details
\* Details{}: every field at its zero value
ZeroDetails ==
    [Id |-> 0, Author |-> "", Year |-> 0, Type |-> "", Pages |-> 0,
     Publisher |-> "", Language |-> "", ISBN_10 |-> "", ISBN_13 |-> ""]

\* a static record that does not substitute the id
StaticDetailsFixedId(id) ==
    [Id |-> 0, Author |-> "William Shakespeare", Year |-> 1595,
     Type |-> "paperback", Pages |-> 200, Publisher |-> "PublisherA",
     Language |-> "English", ISBN_10 |-> "1234567890", ISBN_13 |-> "123-1234567890"]

\* the literal getBookDetails returns when the external source is disabled
StaticDetails(id) ==
    [Id |-> id, Author |-> "William Shakespeare", Year |-> 1595,
     Type |-> "paperback", Pages |-> 200, Publisher |-> "PublisherA",
     Language |-> "English", ISBN_10 |-> "1234567890", ISBN_13 |-> "123-1234567890"]

\* json.Marshal of a *Details: the object keyed by the struct's json tags
Marshal(d) ==
    ("id" :> d.Id) @@ ("author" :> d.Author) @@ ("year" :> d.Year) @@
    ("type" :> d.Type) @@ ("pages" :> d.Pages) @@ ("publisher" :> d.Publisher) @@
    ("language" :> d.Language) @@ ("isbn-10" :> d.ISBN_10) @@ ("isbn-13" :> d.ISBN_13)

\* json.Marshal of struct{Error string `json:"error"`}
MarshalError(msg) == ("error" :> msg)

\* the external source is used whatever the environment says
UseExternalAlways(e) == TRUE

\* os.Getenv("ENABLE_EXTERNAL_BOOK_SERVICE") == "true"
UseExternal(e) == e.ENABLE_EXTERNAL_BOOK_SERVICE = "true"

\* --------------------------------------------------------------- upstream
\* isbnIdentifier[t] after the loop over book.IndustryIdentifiers: the
\* identifier of the last entry of type t, "" when there is none
IsbnIdentifier(ids, t) ==
    IF \E i \in 1..Len(ids) : ids[i].Type = t
    THEN ids[CHOOSE i \in 1..Len(ids) :
                 ids[i].Type = t /\ \A j \in (i + 1)..Len(ids) : ids[j].Type # t].Identifier
    ELSE ""

\* json.NewDecoder(res.Body).Decode(rec), its error ignored: a body that is
\* not valid JSON leaves rec at its zero value
Decode(body) == IF body.valid THEN [Items |-> body.items] ELSE [Items |-> << >>]

\* what fetchDetailsFromExternalService returns once client.Do has returned
\* res; panic is set when rec.Items[0] or book.Authors[0] is out of range
fetchDetailsFromExternalService(id, res) ==
    IF res.err # "" THEN [panic |-> FALSE, details |-> ZeroDetails]
    ELSE IF res.status # 200 THEN [panic |-> FALSE, details |-> ZeroDetails]
    ELSE LET rec == Decode(res.body) IN
         IF Len(rec.Items) = 0 THEN [panic |-> TRUE, details |-> ZeroDetails]
         ELSE LET book == rec.Items[1]
                  printType == IF book.PrintType = "BOOK" THEN "paperback" ELSE "unknown"
                  language == IF book.Language = "en" THEN "English" ELSE "unknown"
                  year == Atoi(book.PublishedDate).val
              IN  IF Len(book.Authors) = 0 THEN [panic |-> TRUE, details |-> ZeroDetails]
                  ELSE [panic |-> FALSE,
                        details |-> [Id |-> id, Author |-> book.Authors[1], Year |-> year,
                                     Type |-> printType, Pages |-> book.PageCount,
                                     Publisher |-> book.Publisher, Language |-> language,
                                     ISBN_10 |-> IsbnIdentifier(book.IndustryIdentifiers, "ISBN_10"),
                                     ISBN_13 |-> IsbnIdentifier(book.IndustryIdentifiers, "ISBN_13")]]

\* ----------------------------------------------------------------- inputs
DetailsPath == << "/", "d", "e", "t", "a", "i", "l", "s" >>

TailChars == { "4", "0", "a", "/", "-", "+" }

RECURSIVE SeqsUpTo(_, _)
SeqsUpTo(S, n) ==
    IF n = 0 THEN { << >> }
    ELSE LET shorter == SeqsUpTo(S, n - 1)
         IN  shorter \cup { Append(t, c) : t \in shorter, c \in S }

\* "/details" and "/details/" followed by at most MaxTail characters
RichPaths ==
    { DetailsPath } \cup { DetailsPath \o << "/" >> \o t : t \in SeqsUpTo(TailChars, MaxTail) }

\* inbound header maps as net/http builds them: canonical keys, >= 1 value
PlainHeader == ("Cookie" :> << "session" >>)

TraceHeader ==
    ("X-Request-Id" :> << "req-1", "req-2" >>) @@ ("User-Agent" :> << "curl" >>) @@
    ("Cookie" :> << "session" >>)

\* the requests of the concurrent specification
InboundRequests ==
    { [path |-> DetailsPath, header |-> PlainHeader],
      [path |-> DetailsPath \o << "/", "a", "b", "c" >>, header |-> TraceHeader],
      [path |-> DetailsPath \o << "/", "4", "2" >>, header |-> TraceHeader],
      [path |-> DetailsPath \o << "/", "7" >>, header |-> PlainHeader] }

RichHeaderNames == { "X-Request-Id", "Traceparent", "User-Agent", "Cookie" }

HeaderValues == { t \in SeqsUpTo({ "a", "b" }, MaxValues) : Len(t) > 0 }

RichHeaders ==
    UNION { [names -> HeaderValues] : names \in SUBSET RichHeaderNames }

\* bodies the upstream API can answer with
Book1 ==
    [Language |-> "en", PrintType |-> "BOOK",
     Authors |-> << "William Shakespeare", "Someone Else" >>,
     Publisher |-> "Courier Corporation", PageCount |-> 100,
     PublishedDate |-> << "1", "9", "9", "4" >>,
     IndustryIdentifiers |-> << [Type |-> "ISBN_10", Identifier |-> "0486424618"],
                                [Type |-> "ISBN_13", Identifier |-> "9780486424613"] >>]

Book2 ==
    [Language |-> "fr", PrintType |-> "MAGAZINE", Authors |-> << "Moliere" >>,
     Publisher |-> "", PageCount |-> 0,
     PublishedDate |-> << "2", "0", "0", "2", "-", "0", "1", "-", "1", "5" >>,
     IndustryIdentifiers |-> << >>]

Book3 == [Book1 EXCEPT !.Authors = << >>]

Bodies ==
    { [valid |-> FALSE, items |-> << >>],
      [valid |-> TRUE, items |-> << >>],
      [valid |-> TRUE, items |-> << Book1 >>],
      [valid |-> TRUE, items |-> << Book2, Book1 >>],
      [valid |-> TRUE, items |-> << Book3 >>] }

NoBody == [valid |-> FALSE, items |-> << >>]

Statuses == { 200, 404, 503 }

Environments == [ENABLE_EXTERNAL_BOOK_SERVICE : { "true", "false", "" }]

\* ------------------------------------------------------------------ state
VARIABLES
    env,        \* the process environment os.Getenv reads
    pc,         \* per request: "idle", "calling" (blocked in client.Do), "done", "panicked"
    req,        \* per request: the inbound request (URL path, header)
    id,         \* per request: details' local id
    headers,    \* per request: details' local headers (the forwarded header set)
    outbound,   \* per request: the request handed to client.Do
    attempts,   \* per request: calls of client.Do
    elapsed,    \* per request: seconds since client.Do was called
    doResult,   \* per request: what client.Do returned (res, err)
    resp        \* per request: what was written to the http.ResponseWriter

vars == << env, pc, req, id, headers, outbound, attempts, elapsed, doResult, resp >>

NoRequest == [path |-> << >>, header |-> EmptyHeader]
NoOutbound == [method |-> "", query |-> "", header |-> EmptyHeader]
NoResult == [err |-> "", status |-> 0, body |-> NoBody]
NoResponse == [status |-> 0, contentType |-> "", body |-> << >>]

Init ==
    /\ env \in Environments
    /\ pc = [r \in Requests |-> "idle"]
    /\ req = [r \in Requests |-> NoRequest]
    /\ id = [r \in Requests |-> 0]
    /\ headers = [r \in Requests |-> EmptyHeader]
    /\ outbound = [r \in Requests |-> NoOutbound]
    /\ attempts = [r \in Requests |-> 0]
    /\ elapsed = [r \in Requests |-> 0]
    /\ doResult = [r \in Requests |-> NoResult]
    /\ resp = [r \in Requests |-> NoResponse]

\* the process started without ENABLE_EXTERNAL_BOOK_SERVICE=true
InitStatic == Init /\ ~UseExternal(env)

\* a variable every handler shares: a write is seen by all of them
StoreShared(f, r, v) == [q \in DOMAIN f |-> v]

\* a local variable of the handler invocation serving request r
StoreLocal(f, r, v) == [f EXCEPT ![r] = v]

\* the Client has no Timeout
NoClientTimeout(e) == TRUE

\* the Client's timer has not fired e seconds into the call
WithinClientTimeout(e) == e < ClientTimeout

\* http.NewRequest("GET", uri, nil): a request with an empty header; the
\* headers parameter of fetchDetailsFromExternalService is never read
NewRequest(isbn, fwd) ==
    [method |-> "GET", query |-> "isbn:" \o isbn, header |-> EmptyHeader]

\* ---------------------------------------------------------------- actions
\* The handler `details` serves request r up to the point where it returns
\* or blocks in client.Do.
details(r, path, hdr) ==
    /\ pc[r] = "idle"
    /\ LET pathParts == Split(path, "/")
           parsed == Atoi(pathParts[Len(pathParts)])
           fwd == getForwardHeaders(hdr)
       IN  /\ req' = [req EXCEPT ![r] = [path |-> path, header |-> hdr]]
           /\ id' = StoreLocal(id, r, parsed.val)
           /\ headers' = StoreLocal(headers, r, fwd)
           /\ IF parsed.err
              THEN /\ resp' = [resp EXCEPT ![r] =
                        [status |-> 400, contentType |-> "application/json",
                         body |-> MarshalError("please provide numeric product id")]]
                   /\ pc' = [pc EXCEPT ![r] = "done"]
                   /\ UNCHANGED << outbound, attempts >>
              ELSE IF UseExternal(env)
              THEN /\ outbound' = [outbound EXCEPT ![r] = NewRequest("0486424618", fwd)]
                   /\ attempts' = [attempts EXCEPT ![r] = @ + 1]
                   /\ pc' = [pc EXCEPT ![r] = "calling"]
                   /\ UNCHANGED resp
              ELSE /\ resp' = [resp EXCEPT ![r] =
                        [status |-> 200, contentType |-> "application/json",
                         body |-> Marshal(StaticDetails(id'[r]))]]
                   /\ pc' = [pc EXCEPT ![r] = "done"]
                   /\ UNCHANGED << outbound, attempts >>
    /\ UNCHANGED << env, elapsed, doResult >>

\* client.Do returns res for request r; fetchDetailsFromExternalService and
\* details run to their end: the record is marshalled and written with the
\* implicit status 200, or the handler panics and nothing is written.
Return(r, res) ==
    LET out == fetchDetailsFromExternalService(id[r], res)
    IN  /\ doResult' = [doResult EXCEPT ![r] = res]
        /\ elapsed' = [elapsed EXCEPT ![r] = 0]
        /\ IF out.panic
           THEN /\ pc' = [pc EXCEPT ![r] = "panicked"]
                /\ UNCHANGED resp
           ELSE /\ pc' = [pc EXCEPT ![r] = "done"]
                /\ resp' = [resp EXCEPT ![r] =
                        [status |-> 200, contentType |-> "application/json",
                         body |-> Marshal(out.details)]]
        /\ UNCHANGED << env, req, id, headers, outbound, attempts >>

\* the transport fails (connection refused, TLS failure, ...)
DoError(r) ==
    /\ pc[r] = "calling"
    /\ WithinClientTimeout(elapsed[r])
    /\ Return(r, [err |-> "connection error", status |-> 0, body |-> NoBody])

\* the upstream answers
DoResponse(r, status, body) ==
    /\ pc[r] = "calling"
    /\ WithinClientTimeout(elapsed[r])
    /\ status = 200 \/ body = NoBody
    /\ Return(r, [err |-> "", status |-> status, body |-> body])

\* the inbound request's context is cancelled while the call is in flight:
\* client.Do(req.WithContext(ctx)) returns the context's error
Cancel(r) ==
    /\ pc[r] = "calling"
    /\ Return(r, [err |-> "context canceled", status |-> 0, body |-> NoBody])

\* the Client's own timer fires
Timeout(r) ==
    /\ pc[r] = "calling"
    /\ ~WithinClientTimeout(elapsed[r])
    /\ Return(r, [err |-> "Client.Timeout exceeded", status |-> 0, body |-> NoBody])

\* a second passes while the call is in flight
Tick(r) ==
    /\ pc[r] = "calling"
    /\ WithinClientTimeout(elapsed[r])
    /\ elapsed[r] < MaxClock
    /\ elapsed' = [elapsed EXCEPT ![r] = @ + 1]
    /\ UNCHANGED << env, pc, req, id, headers, outbound, attempts, doResult, resp >>

Upstream(r) ==
    \/ DoError(r)
    \/ \E status \in Statuses, body \in Bodies : DoResponse(r, status, body)
    \/ Cancel(r)
    \/ Timeout(r)
    \/ Tick(r)

\* the server accepts request r and runs the handler registered for its path
Receive(r) ==
    /\ pc[r] = "idle"
    /\ \E q \in InboundRequests : details(r, q.path, q.header)

\* concurrent requests
Next == \E r \in Requests : Receive(r) \/ Upstream(r)

Spec == Init /\ [][Next]_vars

\* one request, any path of the rich set
ReceiveRich ==
    /\ pc[1] = "idle"
    /\ \E path \in RichPaths : details(1, path, TraceHeader)

NextRich == ReceiveRich \/ Upstream(1)

SpecRich == Init /\ [][NextRich]_vars

\* one request in static mode, any header map of the rich set
ReceiveFwd ==
    /\ pc[1] = "idle"
    /\ \E hdr \in RichHeaders : details(1, DetailsPath \o << "/", "4", "2" >>, hdr)

NextFwd == ReceiveFwd

SpecFwd == InitStatic /\ [][NextFwd]_vars

\* ----------------------------------------------------- notions of the claims
\* the part of a path after its last "/"
TrailingSegment(path) ==
    LET last == CHOOSE i \in 1..Len(path) :
                    path[i] = "/" /\ \A j \in (i + 1)..Len(path) : path[j] # "/"
    IN  SubSeq(path, last + 1, Len(path))

Unsigned(seg) == IF seg # << >> /\ seg[1] \in { "+", "-" } THEN Tail(seg) ELSE seg

\* an optional sign followed by one or more decimal digits
IsDecimalInteger(seg) ==
    /\ Unsigned(seg) # << >>
    /\ \A i \in 1..Len(Unsigned(seg)) : IsDigit(Unsigned(seg)[i])

DecimalValue(seg) ==
    IF seg[1] = "-" THEN 0 - LeadingDigits(Unsigned(seg), 0)
                    ELSE LeadingDigits(Unsigned(seg), 0)

\* the process runs without ENABLE_EXTERNAL_BOOK_SERVICE=true
StaticMode == env.ENABLE_EXTERNAL_BOOK_SERVICE # "true"

JsonResponse(status, body) ==
    [status |-> status, contentType |-> "application/json", body |-> body]

\* the upstream call of request r failed before a payload was read
CallFailed(r) == doResult[r].err # "" \/ doResult[r].status # 200

\* the payload of request r lacks the item or the author the mapping reads
PayloadUnusable(r) ==
    \/ ~doResult[r].body.valid
    \/ doResult[r].body.items = << >>
    \/ doResult[r].body.items[1].Authors = << >>

\* request r has been through client.Do and the handler is over
CallOver(r) == attempts[r] > 0 /\ pc[r] \in { "done", "panicked" }

\* the response request r gets when it is the only request: the handler's
\* steps composed on its own path, the environment and its own upstream outcome
HandledAlone(request, e, res) ==
    LET parts == Split(request.path, "/")
        parsed == Atoi(parts[Len(parts)])
        out == fetchDetailsFromExternalService(parsed.val, res)
    IN  IF parsed.err
        THEN JsonResponse(400, MarshalError("please provide numeric product id"))
        ELSE IF ~UseExternal(e) THEN JsonResponse(200, Marshal(StaticDetails(parsed.val)))
        ELSE IF out.panic THEN NoResponse
        ELSE JsonResponse(200, Marshal(out.details))

\* ----------------------------------------------------------------- claims
\* C1: every request with a numeric id that goes to the external source is
\* answered with status 200 and a Details body whatever the upstream does;
\* after a failed call or an unusable payload the body is the zero-valued
\* Details, and the handler never ends without a response.
C1_AlwaysAnswers ==
    \A r \in Requests :
        /\ pc[r] # "panicked"
        /\ CallOver(r) =>
              /\ resp[r].status = 200
              /\ (CallFailed(r) \/ PayloadUnusable(r)) =>
                     resp[r] = JsonResponse(200, Marshal(ZeroDetails))

\* C2: after a failed upstream call the response is 200 with id equal to the
\* requested id and every other field at its zero value.
C2_FailureEchoesId ==
    \A r \in Requests :
        (CallOver(r) /\ CallFailed(r)) =>
            resp[r] = JsonResponse(200, Marshal([ZeroDetails EXCEPT !.Id = id[r]]))

\* C3: every forwarded header name, with its values, is on the outbound
\* request handed to the upstream API.
C3_ForwardedHeadersAttached ==
    \A r \in Requests :
        attempts[r] > 0 =>
            \A n \in DOMAIN headers[r] :
                /\ n \in DOMAIN outbound[r].header
                /\ outbound[r].header[n] = headers[r][n]

\* C4: a request whose trailing path segment is not a decimal integer gets
\* status 400 and exactly the error object, in either mode, and no Details
\* record and no upstream call.
C4_NonNumericIs400 ==
    \A r \in Requests :
        (pc[r] # "idle" /\ ~IsDecimalInteger(TrailingSegment(req[r].path))) =>
            /\ pc[r] = "done"
            /\ resp[r] = [status |-> 400, contentType |-> "application/json",
                          body |-> ("error" :> "please provide numeric product id")]
            /\ attempts[r] = 0

C4_Witness ==
    \E r \in Requests :
        /\ ~StaticMode
        /\ pc[r] = "done"
        /\ TrailingSegment(req[r].path) = << >>
        /\ resp[r].status = 400

\* C5: in static mode a request with a numeric id gets 200 with that id and
\* the literal defaults, so identical requests get identical bodies.
C5_StaticIsFixed ==
    /\ \A r \in Requests :
          (/\ pc[r] # "idle"
           /\ StaticMode
           /\ IsDecimalInteger(TrailingSegment(req[r].path))) =>
              /\ pc[r] = "done"
              /\ resp[r].status = 200
              /\ resp[r].body =
                    ("id" :> DecimalValue(TrailingSegment(req[r].path))) @@
                    ("author" :> "William Shakespeare") @@ ("year" :> 1595) @@
                    ("type" :> "paperback") @@ ("pages" :> 200) @@
                    ("publisher" :> "PublisherA") @@ ("language" :> "English") @@
                    ("isbn-10" :> "1234567890") @@ ("isbn-13" :> "123-1234567890")
    /\ \A r1, r2 \in Requests :
          (/\ StaticMode
           /\ pc[r1] = "done" /\ pc[r2] = "done"
           /\ req[r1] = req[r2]) => resp[r1] = resp[r2]

C5_Witness ==
    \E r1, r2 \in Requests :
        /\ r1 # r2
        /\ env.ENABLE_EXTERNAL_BOOK_SERVICE = "false"
        /\ pc[r1] = "done" /\ pc[r2] = "done"
        /\ req[r1] = req[r2]
        /\ resp[r1].status = 200
        /\ resp[r1].body["id"] = 42

\* C6: the forwarded header set is the inbound header map restricted to the
\* allow-list: no other name, no allow-listed name the request lacks, and
\* for a name the request carries exactly its values in their order.
C6_ForwardIsRestriction ==
    pc[1] = "done" =>
        LET allow == { incomingHeaders[i] : i \in 1..Len(incomingHeaders) }
            inbound == req[1].header
            out == headers[1]
        IN  /\ DOMAIN out \subseteq allow
            /\ \A n \in allow :
                  /\ (n \in DOMAIN out) <=> (CanonicalMIMEHeaderKey(n) \in DOMAIN inbound)
                  /\ (n \in DOMAIN out) => out[n] = inbound[CanonicalMIMEHeaderKey(n)]

C6_Witness ==
    /\ pc[1] = "done"
    /\ DOMAIN req[1].header = { "X-Request-Id", "User-Agent", "Cookie" }
    /\ req[1].header["X-Request-Id"] = << "b", "a" >>
    /\ DOMAIN headers[1] = { "x-request-id", "user-agent" }

\* C7 as stated: once the inbound context is cancelled during the upstream
\* call the call is aborted and no response is attempted; the call never
\* lasts longer than 5 seconds.
C7_NoResponseAfterCancel ==
    \A r \in Requests :
        /\ pc[r] = "calling" => elapsed[r] <= 5
        /\ doResult[r].err = "context canceled" =>
              /\ pc[r] # "calling"
              /\ attempts[r] = 1
              /\ resp[r] = NoResponse

\* C7 as amended: once the inbound context is cancelled during the upstream
\* call the call is aborted and the handler still writes its 200 response,
\* as after any failed call; the call never lasts longer than 5 seconds and
\* a call ended by the timeout is answered the same way.
C7_CancelAbortsCall ==
    \A r \in Requests :
        /\ pc[r] = "calling" => elapsed[r] <= 5
        /\ doResult[r].err \in { "context canceled", "Client.Timeout exceeded" } =>
              /\ pc[r] = "done"
              /\ attempts[r] = 1
              /\ resp[r].status = 200

C7_Witness ==
    \E r1, r2 \in Requests :
        /\ doResult[r1].err = "context canceled"
        /\ resp[r1].status = 200
        /\ doResult[r2].err = "Client.Timeout exceeded"

\* C8: a request causes at most one call of the upstream API, and none when
\* it is served in static mode or rejected with 400.
C8_AtMostOneAttempt ==
    \A r \in Requests :
        /\ attempts[r] <= 1
        /\ (StaticMode \/ resp[r].status = 400) => attempts[r] = 0

C8_Witness ==
    \E r1, r2 \in Requests :
        /\ pc[r1] = "done"
        /\ doResult[r1].err = "connection error"
        /\ attempts[r1] = 1
        /\ resp[r2].status = 400

\* C9: the year of a Details built from a well-formed item is the integer
\* formed by the leading digits of the published date.
C9_YearIsLeadingNumber ==
    \A r \in Requests :
        (pc[r] = "done" /\ attempts[r] > 0 /\ ~CallFailed(r)) =>
            resp[r].body["year"] =
                LeadingDigits(doResult[r].body.items[1].PublishedDate, 0)

\* C10: whatever the interleaving, each request's forwarded headers and
\* response are those of the request handled alone.
C10_NoInterference ==
    \A r \in Requests :
        /\ pc[r] # "idle" => headers[r] = getForwardHeaders(req[r].header)
        /\ pc[r] \in { "done", "panicked" } =>
              resp[r] = HandledAlone(req[r], env, doResult[r])

C10_Witness ==
    \E r1, r2 \in Requests :
        /\ pc[r1] = "calling"
        /\ pc[r2] = "done"
        /\ attempts[r2] = 1
        /\ ~CallFailed(r2)
        /\ resp[r2].body["id"] = 7
        /\ id[r1] = 42

====
